---- MODULE Spec2Model ----
(***************************************************************************)
(* Model of ros/src/waypoint_updater/waypoint_updater.py: the node         *)
(* WaypointUpdater, its five subscriber callbacks and its 10 Hz loop().    *)
(*                                                                         *)
(* Numbers.  Positions are integer metres.  distance() returns a square    *)
(* root; the model keeps the SQUARE of the distance (distance2) and every  *)
(* comparison of a distance is made between squares, which is exact.       *)
(* Speeds (current_velocity, twist.linear.x) are integers counting HALF    *)
(* metres per second, so 15.0 m/s is 30, 3.0 m/s is 6 and the decay        *)
(* current_velocity - i * 0.5 is v - i.                                    *)
(* Angles are integers counting pi/8, used as follows: an even value 2k    *)
(* is exactly k*pi/4 and an odd value 2k+1 is some angle strictly between  *)
(* k*pi/4 and (k+1)*pi/4.  The yaw of a pose is always even, and then      *)
(* fabs(theta - heading) > pi/4 is exactly |theta - heading| > 2.          *)
(***************************************************************************)
EXTENDS Integers, Sequences, FiniteSets, TLC

VARIABLES
    base_waypoints,     \* attribute base_waypoints: <<>> while never set, else <<msg>>
    current_pose,       \* attribute current_pose: <<>> while never set, else <<msg>>
    obstacle_waypoint,  \* attribute obstacle_waypoint: <<>> while never set, else <<n>>
    traffic_waypoint,   \* self.traffic_waypoint
    current_velocity,   \* self.current_velocity (half m/s)
    decel,              \* self.decel
    braking,            \* self.braking
    alive,              \* FALSE once an exception has left loop() and ended the node
    out,                \* the Lane messages published during the last step (of a
                        \* function called on its own: the value it returned)
    last,               \* what the last step was and what it read
    twin                \* a second run of the node, fed by SpecTwin with the same
                        \* updates and ticks except the obstacle updates

vars == <<base_waypoints, current_pose, obstacle_waypoint, traffic_waypoint,
          current_velocity, decel, braking, alive, out, last, twin>>

----------------------------------------------------------------------------
(* Program constants.                                                      *)

LOOKAHEAD_WPS == 200
MAX_DECEL == 4
STOP_BUFFER == 5
CRUISE_SPEED == 30
CREEP_SPEED == 6
INIT_VELOCITY == 0
INIT_DECEL == 1
INIT_TRAFFIC_WAYPOINT == -1

----------------------------------------------------------------------------
(* Bounds of the model.                                                    *)

MaxLen == 4          \* waypoints of the short straight path
Spacing == 3         \* metres between the waypoints of the short straight path
LongLen == 203       \* waypoints of the long straight path (1 m apart)
MaxRaceWp == 1        \* a concurrent velocity update lands within the first MaxRaceWp waypoints
MaxStart == 9        \* largest start_wp of a direct get_final_waypoints call
MaxCount == 6        \* largest end_wp - start_wp of a direct get_final_waypoints call
LocateLen == 3       \* waypoints of a 1 m path given to the locator on its own; the
                     \* vehicle is then placed within LocateLen - 1 metres of the origin

----------------------------------------------------------------------------
(* Messages.                                                               *)

Point(x, y, z) == [x |-> x, y |-> y, z |-> z]

\* a waypoint of /base_waypoints: pose.pose.position and pose.pose.orientation
BaseWp(x, y, o) == [position |-> Point(x, y, 0), orientation |-> o]

\* a PoseStamped of /current_pose; yaw is the euler angle of its quaternion
Pose(x, y, yaw) == [position |-> Point(x, y, 0), yaw |-> yaw]

Straight(L, step) == <<>> \o [k \in 1..L |-> BaseWp((k - 1) * step, 0, 0)]

Circuit == << BaseWp(0, 0, 0), BaseWp(6, 0, 4), BaseWp(6, 6, 8), BaseWp(0, 6, -4) >>

PathMsgs == { Straight(0, Spacing), Straight(MaxLen, Spacing), Circuit }

PoseMsgs == { Pose(x, 0, yaw) : x \in {0, Spacing, (MaxLen - 1) * Spacing}, yaw \in {0, 4} }

VelocityMsgs == { -2, 0, 5, 10, 16 }

TrafficMsgs == { -(MaxLen + 1), -2, -1, 0, 2, MaxLen - 1, MaxLen }

ObstacleMsgs == { 7 }

----------------------------------------------------------------------------
(* Python list indexing: waypoints[k] raises IndexError outside -L..L-1.   *)

PyIndexOK(waypoints, k) == k >= -Len(waypoints) /\ k <= Len(waypoints) - 1

PyIndex(waypoints, k) ==
    IF k >= 0 THEN waypoints[k + 1] ELSE waypoints[Len(waypoints) + k + 1]

hasattr(attr) == Len(attr) = 1

----------------------------------------------------------------------------
(* distance(): the square of what the code returns.                        *)

distance2(p1, p2) ==
    LET x == p1.x - p2.x
        y == p1.y - p2.y
        z == p1.z - p2.z
    IN  x * x + y * y + z * z

\* dist > STOP_BUFFER
FartherThanBuffer(d2) == d2 > STOP_BUFFER * STOP_BUFFER

\* variant: min_stopping_dist without the STOP_BUFFER term
TooShortToStop_nobuffer(d2, v) ==
    LET k == 8 * MAX_DECEL
        rhs == v * v
    IN  d2 * k * k < rhs * rhs

\* tl_dist < min_stopping_dist, with
\* min_stopping_dist = current_velocity**2 / (2.0 * MAX_DECEL) + STOP_BUFFER.
\* In half m/s: sqrt(d2) < v*v / (8*MAX_DECEL) + STOP_BUFFER.
TooShortToStop(d2, v) ==
    LET k == 8 * MAX_DECEL
        rhs == v * v + k * STOP_BUFFER
    IN  d2 * k * k < rhs * rhs

----------------------------------------------------------------------------
(* get_closest_waypoint: linear scan keeping the strict minimum, so the    *)
(* earliest of several equally near waypoints wins.  closest_scan gives    *)
(* <<closest_dist^2, closest_wp>> of the loop run over range(lo, hi); the  *)
(* range is evaluated in two halves, a later waypoint replacing an earlier *)
(* one only when strictly nearer (dist < closest_dist), as in the loop.    *)

RECURSIVE closest_scan(_, _, _, _)
closest_scan(pose, waypoints, lo, hi) ==
    IF hi - lo = 1
    THEN << distance2(pose.position, waypoints[lo + 1].position), lo >>
    ELSE LET mid == (lo + hi) \div 2
         IN  CHOOSE closest \in
                 { IF later[1] < earlier[1] THEN later ELSE earlier :
                     earlier \in { closest_scan(pose, waypoints, lo, mid) },
                     later   \in { closest_scan(pose, waypoints, mid, hi) } } : TRUE

\* variant: the scan compares with dist <= closest_dist, the last of several
\* equally near waypoints wins
get_closest_waypoint_last_tie(pose, waypoints) ==
    IF Len(waypoints) = 0 THEN 0
    ELSE CHOOSE c \in 0..(Len(waypoints) - 1) :
           \A j \in 0..(Len(waypoints) - 1) :
              LET dc == distance2(pose.position, waypoints[c + 1].position)
                  dj == distance2(pose.position, waypoints[j + 1].position)
              IN  dc <= dj /\ (dj = dc => j <= c)

\* closest_wp stays 0 when the loop body never runs
get_closest_waypoint(pose, waypoints) ==
    IF Len(waypoints) = 0 THEN 0
    ELSE closest_scan(pose, waypoints, 0, Len(waypoints))[2]

\* math.atan2(dy, dx) in units of pi/8 (even: exact multiple of pi/4,
\* odd: strictly inside the octant); atan2(0, 0) = 0 and atan2(0, -x) = pi.
atan2(dy, dx) ==
    LET ay == IF dy < 0 THEN -dy ELSE dy
        ax == IF dx < 0 THEN -dx ELSE dx
        q  == IF dx > 0 THEN (IF ay < ax THEN 1 ELSE IF ay = ax THEN 2 ELSE 3)
              ELSE IF dx = 0 THEN 4
              ELSE (IF ay > ax THEN 5 ELSE IF ay = ax THEN 6 ELSE 7)
    IN  IF dy = 0 THEN (IF dx >= 0 THEN 0 ELSE 8)
        ELSE IF dy > 0 THEN q ELSE -q

fabs(a) == IF a < 0 THEN -a ELSE a

\* waypoints[closest_wp] of get_next_waypoint raises IndexError on an empty path
get_next_waypoint_raises(pose, waypoints) ==
    ~PyIndexOK(waypoints, get_closest_waypoint(pose, waypoints))

\* variant: the advanced index is wrapped to the path length
get_next_waypoint_wrapped(pose, waypoints) ==
    LET closest_wp == get_closest_waypoint(pose, waypoints)
        wp_x    == waypoints[closest_wp + 1].position.x
        wp_y    == waypoints[closest_wp + 1].position.y
        heading == atan2(wp_y - pose.position.y, wp_x - pose.position.x)
        theta   == pose.yaw
        angle   == fabs(theta - heading)
    IN  IF angle > 2 THEN (closest_wp + 1) % Len(waypoints) ELSE closest_wp

get_next_waypoint(pose, waypoints) ==
    LET closest_wp == get_closest_waypoint(pose, waypoints)
        wp_x    == waypoints[closest_wp + 1].position.x
        wp_y    == waypoints[closest_wp + 1].position.y
        heading == atan2(wp_y - pose.position.y, wp_x - pose.position.x)
        theta   == pose.yaw
        angle   == fabs(theta - heading)
    IN  IF angle > 2 THEN closest_wp + 1 ELSE closest_wp

----------------------------------------------------------------------------
(* Reads of self.current_velocity during one loop().  The callbacks run on *)
(* rospy's subscriber threads, so current_velocity_cb can run between two  *)
(* reads of the attribute.  race = NoRace: no update lands between the     *)
(* reads of this tick.  Otherwise one update to race.v lands just before   *)
(* the read at source line race.line made for the waypoint at offset       *)
(* race.k of the window.                                                   *)

NoRace == [k |-> -1, line |-> 0, v |-> 0]

VelocityRead(v0, race, k, line) ==
    IF race.k >= 0 /\ (k > race.k \/ (k = race.k /\ line >= race.line))
    THEN race.v ELSE v0

\* wp.twist.twist.linear.x of one waypoint (lines 91-108); i is the loop
\* variable of get_final_waypoints, d2 the squared distance to
\* waypoints[end_wp], v98/v105/v106 what the reads at those lines return.
target_speed(brk, d2, i, v98, v105, v106) ==
    IF ~brk THEN CRUISE_SPEED
    ELSE IF FartherThanBuffer(d2) /\ v98 < CREEP_SPEED THEN CREEP_SPEED
    ELSE IF ~FartherThanBuffer(d2) THEN 0
    ELSE IF v105 - 2 * i > CREEP_SPEED THEN v106 - i
    ELSE CREEP_SPEED

\* variant: the path is indexed with the offset in the window, not with i
final_waypoint_offset(waypoints, start_wp, end_wp, brk, v0, race, i) ==
    LET k     == i - start_wp
        index == k % Len(waypoints)
        src   == waypoints[index + 1]
        pos   == Point(src.position.x, src.position.y, src.position.z)
        d2    == IF brk THEN distance2(pos, PyIndex(waypoints, end_wp).position) ELSE 0
    IN  [position    |-> pos,
         orientation |-> src.orientation,
         linear_x    |-> target_speed(brk, d2, i,
                                      VelocityRead(v0, race, k, 98),
                                      VelocityRead(v0, race, k, 105),
                                      VelocityRead(v0, race, k, 106))]

\* one iteration of the for loop of get_final_waypoints
final_waypoint(waypoints, start_wp, end_wp, brk, v0, race, i) ==
    LET index == i % Len(waypoints)
        k     == i - start_wp
        src   == waypoints[index + 1]
        pos   == Point(src.position.x, src.position.y, src.position.z)
        d2    == IF brk THEN distance2(pos, PyIndex(waypoints, end_wp).position) ELSE 0
    IN  [position    |-> pos,
         orientation |-> src.orientation,
         linear_x    |-> target_speed(brk, d2, i,
                                      VelocityRead(v0, race, k, 98),
                                      VelocityRead(v0, race, k, 105),
                                      VelocityRead(v0, race, k, 106))]

\* variant: range(start_wp, end_wp - 1)
get_final_waypoints_short(waypoints, start_wp, end_wp, brk, v0, race) ==
    LET n == IF end_wp - 1 > start_wp THEN end_wp - 1 - start_wp ELSE 0
    IN  [k \in 1..n |->
           final_waypoint(waypoints, start_wp, end_wp, brk, v0, race, start_wp + k - 1)]

\* variant: range(start_wp, end_wp + 1)
get_final_waypoints_inclusive(waypoints, start_wp, end_wp, brk, v0, race) ==
    LET n == IF end_wp + 1 > start_wp THEN end_wp + 1 - start_wp ELSE 0
    IN  [k \in 1..n |->
           final_waypoint(waypoints, start_wp, end_wp, brk, v0, race, start_wp + k - 1)]

\* range(start_wp, end_wp) is empty when end_wp <= start_wp; the for loop
\* appends one waypoint per i, in ascending order of i
\* variant: a range that ends before it starts goes on around the path
get_final_waypoints_around(waypoints, start_wp, end_wp, brk, v0, race) ==
    LET n == IF end_wp > start_wp THEN end_wp - start_wp
             ELSE end_wp + Len(waypoints) - (start_wp % Len(waypoints))
    IN  [k \in 1..n |-> final_waypoint(waypoints, start_wp, end_wp, brk, v0, race,
                                       start_wp + k - 1)]

get_final_waypoints(waypoints, start_wp, end_wp, brk, v0, race) ==
    LET n == IF end_wp > start_wp THEN end_wp - start_wp ELSE 0
    IN  [k \in 1..n |->
           final_waypoint(waypoints, start_wp, end_wp, brk, v0, race, start_wp + k - 1)]

----------------------------------------------------------------------------
(* loop(): which of the three branches of lines 59-76 runs.                *)

\* variant: a light that is too close also clears the braking flag
loop_branch_unsticky(traffic_wp, brk, tl_d2, v) ==
    IF traffic_wp = -1 \/ TooShortToStop(tl_d2, v) THEN 1
    ELSE 3

loop_branch(traffic_wp, brk, tl_d2, v) ==
    IF traffic_wp = -1 THEN 1
    ELSE IF ~brk /\ TooShortToStop(tl_d2, v) THEN 2
    ELSE 3

Min(a, b) == IF a < b THEN a ELSE b

\* the velocity updates that can land between the reads of one tick
Races(branch, n, v0) ==
    {NoRace} \cup
    IF branch = 3
    THEN { [k |-> k, line |-> l, v |-> v] :
             k \in 0..(Min(n, MaxRaceWp) - 1), l \in {98, 105, 106},
             v \in VelocityMsgs \ {v0} }
    ELSE {}

Step(ev, outcome, branch, next_wp, was_braking, v56, race, start_wp, end_wp) ==
    [ev |-> ev, outcome |-> outcome, branch |-> branch, next_wp |-> next_wp,
     was_braking |-> was_braking, v56 |-> v56, race |-> race,
     start_wp |-> start_wp, end_wp |-> end_wp]

Event(ev) == Step(ev, "none", 0, 0, FALSE, 0, NoRace, 0, 0)

\* variant: the publish of line 78 sits outside the if of line 41
loop_not_ready_publishes ==
    /\ alive
    /\ ~(hasattr(base_waypoints) /\ hasattr(current_pose))
    /\ out' = << <<>> >>
    /\ last' = Step("loop", "skipped", 0, 0, braking, 0, NoRace, 0, 0)
    /\ UNCHANGED <<base_waypoints, current_pose, obstacle_waypoint, traffic_waypoint,
                   current_velocity, decel, braking, alive>>

\* line 41 false: the tick does nothing
loop_not_ready ==
    /\ alive
    /\ ~(hasattr(base_waypoints) /\ hasattr(current_pose))
    /\ out' = <<>>
    /\ last' = Step("loop", "skipped", 0, 0, braking, 0, NoRace, 0, 0)
    /\ UNCHANGED <<base_waypoints, current_pose, obstacle_waypoint, traffic_waypoint,
                   current_velocity, decel, braking, alive>>

\* variant: the error is swallowed and an empty Lane is published
loop_raises_publishes ==
    /\ alive
    /\ hasattr(base_waypoints) /\ hasattr(current_pose)
    /\ LET pose == current_pose[1]
           wpts == base_waypoints[1]
       IN  \/ get_next_waypoint_raises(pose, wpts)
           \/ ~PyIndexOK(wpts, traffic_waypoint)
    /\ out' = << <<>> >>
    /\ last' = Step("loop", "published", 0, 0, braking, 0, NoRace, 0, 0)
    /\ UNCHANGED <<base_waypoints, current_pose, obstacle_waypoint, traffic_waypoint,
                   current_velocity, decel, braking, alive>>

\* IndexError at line 155 (empty path) or line 53 (traffic_wp outside -L..L-1):
\* the exception leaves loop() and __init__, only ROSInterruptException is
\* caught, the node ends.
loop_raises ==
    /\ alive
    /\ hasattr(base_waypoints) /\ hasattr(current_pose)
    /\ LET pose == current_pose[1]
           wpts == base_waypoints[1]
       IN  \/ get_next_waypoint_raises(pose, wpts)
           \/ ~PyIndexOK(wpts, traffic_waypoint)
    /\ alive' = FALSE
    /\ out' = <<>>
    /\ last' = Step("loop", "raised", 0, 0, braking, 0, NoRace, 0, 0)
    /\ UNCHANGED <<base_waypoints, current_pose, obstacle_waypoint, traffic_waypoint,
                   current_velocity, decel, braking>>

loop_publishes ==
    /\ alive
    /\ hasattr(base_waypoints) /\ hasattr(current_pose)
    /\ LET pose == current_pose[1]
           wpts == base_waypoints[1]
       IN  /\ ~get_next_waypoint_raises(pose, wpts)
           /\ PyIndexOK(wpts, traffic_waypoint)
           /\ \E next_wp \in { get_next_waypoint(pose, wpts) } :
              \E traffic_wp \in { traffic_waypoint } :
              \E tl_d2 \in { distance2(pose.position, PyIndex(wpts, traffic_wp).position) } :
              \E v56 \in { current_velocity } :
              \E branch \in { loop_branch(traffic_wp, braking, tl_d2, v56) } :
                LET brk    == IF branch = 1 THEN FALSE
                              ELSE IF branch = 2 THEN braking ELSE TRUE
                    end_wp == IF branch = 3 THEN traffic_wp ELSE next_wp + LOOKAHEAD_WPS
                    n      == IF end_wp > next_wp THEN end_wp - next_wp ELSE 0
                IN  \E race \in Races(branch, n, v56) :
                      /\ braking' = brk
                      /\ out' = << get_final_waypoints(wpts, next_wp, end_wp, brk, v56, race) >>
                      /\ current_velocity' = IF race = NoRace THEN current_velocity ELSE race.v
                      /\ last' = Step("loop", "published", branch, next_wp, braking, v56,
                                      race, next_wp, end_wp)
    /\ UNCHANGED <<base_waypoints, current_pose, obstacle_waypoint, traffic_waypoint,
                   decel, alive>>

loop == loop_not_ready \/ loop_raises \/ loop_publishes

----------------------------------------------------------------------------
(* Subscriber callbacks.                                                   *)

current_pose_cb(msg) ==
    /\ alive
    /\ current_pose' = <<msg>>
    /\ out' = <<>>
    /\ last' = Event("current_pose_cb")
    /\ UNCHANGED <<base_waypoints, obstacle_waypoint, traffic_waypoint,
                   current_velocity, decel, braking, alive>>

base_waypoints_cb(msg) ==
    /\ alive
    /\ base_waypoints' = <<msg>>
    /\ out' = <<>>
    /\ last' = Event("base_waypoints_cb")
    /\ UNCHANGED <<current_pose, obstacle_waypoint, traffic_waypoint,
                   current_velocity, decel, braking, alive>>

\* variant: an absent stop signal clears the braking flag in the callback
traffic_waypoint_cb_clears(msg) ==
    /\ alive
    /\ traffic_waypoint' = msg
    /\ braking' = IF msg = -1 THEN FALSE ELSE braking
    /\ out' = <<>>
    /\ last' = Event("traffic_waypoint_cb")
    /\ UNCHANGED <<base_waypoints, current_pose, obstacle_waypoint,
                   current_velocity, decel, alive>>

traffic_waypoint_cb(msg) ==
    /\ alive
    /\ traffic_waypoint' = msg
    /\ out' = <<>>
    /\ last' = Event("traffic_waypoint_cb")
    /\ UNCHANGED <<base_waypoints, current_pose, obstacle_waypoint,
                   current_velocity, decel, braking, alive>>

current_velocity_cb(msg) ==
    /\ alive
    /\ current_velocity' = msg
    /\ out' = <<>>
    /\ last' = Event("current_velocity_cb")
    /\ UNCHANGED <<base_waypoints, current_pose, obstacle_waypoint,
                   traffic_waypoint, decel, braking, alive>>

\* variant: the obstacle index is also taken as the stop index
obstacle_waypoint_cb_sets_stop(msg) ==
    /\ alive
    /\ obstacle_waypoint' = <<msg>>
    /\ traffic_waypoint' = msg
    /\ out' = <<>>
    /\ last' = Event("obstacle_waypoint_cb")
    /\ UNCHANGED <<base_waypoints, current_pose,
                   current_velocity, decel, braking, alive>>

obstacle_waypoint_cb(msg) ==
    /\ alive
    /\ obstacle_waypoint' = <<msg>>
    /\ out' = <<>>
    /\ last' = Event("obstacle_waypoint_cb")
    /\ UNCHANGED <<base_waypoints, current_pose, traffic_waypoint,
                   current_velocity, decel, braking, alive>>

----------------------------------------------------------------------------
(* The second run: a record of the attributes of another WaypointUpdater   *)
(* and of what it published during the last step.                         *)

TwinInit ==
    [base_waypoints |-> <<>>, current_pose |-> <<>>, obstacle_waypoint |-> <<>>,
     traffic_waypoint |-> INIT_TRAFFIC_WAYPOINT, current_velocity |-> INIT_VELOCITY,
     braking |-> FALSE, alive |-> TRUE, out |-> <<>>]

\* a callback of the second run: self.<attribute> = value
twin_cb(t, attribute, value) ==
    IF t.alive THEN [t EXCEPT ![attribute] = value, !.out = <<>>] ELSE t

\* a step in which the second run does nothing
twin_idle(t) == [t EXCEPT !.out = <<>>]

\* loop() of the second run, with the velocity reads interleaved as race says
twin_loop(t, race) ==
    IF ~t.alive \/ ~(hasattr(t.base_waypoints) /\ hasattr(t.current_pose))
    THEN [t EXCEPT !.out = <<>>]
    ELSE LET pose == t.current_pose[1]
             wpts == t.base_waypoints[1]
         IN  IF get_next_waypoint_raises(pose, wpts) \/ ~PyIndexOK(wpts, t.traffic_waypoint)
             THEN [t EXCEPT !.alive = FALSE, !.out = <<>>]
             ELSE LET next_wp    == get_next_waypoint(pose, wpts)
                      traffic_wp == t.traffic_waypoint
                      tl_d2      == distance2(pose.position,
                                              PyIndex(wpts, traffic_wp).position)
                      v56        == t.current_velocity
                      branch     == loop_branch(traffic_wp, t.braking, tl_d2, v56)
                      brk        == IF branch = 1 THEN FALSE
                                    ELSE IF branch = 2 THEN t.braking ELSE TRUE
                      end_wp     == IF branch = 3 THEN traffic_wp
                                    ELSE next_wp + LOOKAHEAD_WPS
                  IN  [t EXCEPT !.braking = brk,
                                !.current_velocity = IF race = NoRace THEN @ ELSE race.v,
                                !.out = << get_final_waypoints(wpts, next_wp, end_wp,
                                                               brk, v56, race) >>]

----------------------------------------------------------------------------
(* The node: state after lines 27-32 of __init__, then ticks and updates   *)
(* in any order.                                                           *)

Init ==
    /\ base_waypoints = <<>>
    /\ current_pose = <<>>
    /\ obstacle_waypoint = <<>>
    /\ traffic_waypoint = INIT_TRAFFIC_WAYPOINT
    /\ current_velocity = INIT_VELOCITY
    /\ decel = INIT_DECEL
    /\ braking = FALSE
    /\ alive = TRUE
    /\ out = <<>>
    /\ last = Event("init")
    /\ twin = TwinInit

Next ==
    \/ loop /\ UNCHANGED twin
    \/ \E msg \in PoseMsgs : current_pose_cb(msg) /\ UNCHANGED twin
    \/ \E msg \in PathMsgs : base_waypoints_cb(msg) /\ UNCHANGED twin
    \/ \E msg \in TrafficMsgs : traffic_waypoint_cb(msg) /\ UNCHANGED twin
    \/ \E msg \in VelocityMsgs : current_velocity_cb(msg) /\ UNCHANGED twin
    \/ \E msg \in ObstacleMsgs : obstacle_waypoint_cb(msg) /\ UNCHANGED twin

Spec == Init /\ [][Next]_vars

----------------------------------------------------------------------------
(* Two runs of the node side by side: every tick and every path, pose,     *)
(* stop-index and velocity update happens in both, with the same           *)
(* interleaving of the velocity reads; the obstacle updates differ.        *)

TwinObstacleMsgs == { 8 }

\* obstacle_waypoint_cb of the second run alone
twin_obstacle_waypoint_cb(msg) ==
    /\ twin.alive
    /\ twin' = twin_cb(twin, "obstacle_waypoint", <<msg>>)
    /\ out' = <<>>
    /\ last' = Event("twin_obstacle_waypoint_cb")
    /\ UNCHANGED <<base_waypoints, current_pose, obstacle_waypoint, traffic_waypoint,
                   current_velocity, decel, braking, alive>>

NextTwin ==
    \/ loop /\ twin' = twin_loop(twin, last'.race)
    \/ \E msg \in PoseMsgs :
         current_pose_cb(msg) /\ twin' = twin_cb(twin, "current_pose", <<msg>>)
    \/ \E msg \in PathMsgs :
         base_waypoints_cb(msg) /\ twin' = twin_cb(twin, "base_waypoints", <<msg>>)
    \/ \E msg \in TrafficMsgs :
         traffic_waypoint_cb(msg) /\ twin' = twin_cb(twin, "traffic_waypoint", msg)
    \/ \E msg \in VelocityMsgs :
         current_velocity_cb(msg) /\ twin' = twin_cb(twin, "current_velocity", msg)
    \/ \E msg \in ObstacleMsgs : obstacle_waypoint_cb(msg) /\ twin' = twin_idle(twin)
    \/ \E msg \in TwinObstacleMsgs : twin_obstacle_waypoint_cb(msg)

SpecTwin == Init /\ [][NextTwin]_vars

----------------------------------------------------------------------------
(* The node fed with a long path (1 m between waypoints).                  *)

LongPathMsgs == { Straight(LongLen, 1) }

LongPoseMsgs == { Pose(0, 0, 0), Pose(LongLen - 9, 0, 0), Pose(LongLen - 1, 0, 4) }

LongVelocityMsgs == { 0, 10 }

LongTrafficMsgs == { -1, LongLen - 3, LongLen - 1, LongLen }

NextLong ==
    \/ loop /\ UNCHANGED twin
    \/ \E msg \in LongPoseMsgs : current_pose_cb(msg) /\ UNCHANGED twin
    \/ \E msg \in LongPathMsgs : base_waypoints_cb(msg) /\ UNCHANGED twin
    \/ \E msg \in LongTrafficMsgs : traffic_waypoint_cb(msg) /\ UNCHANGED twin
    \/ \E msg \in LongVelocityMsgs : current_velocity_cb(msg) /\ UNCHANGED twin
    \/ \E msg \in ObstacleMsgs : obstacle_waypoint_cb(msg) /\ UNCHANGED twin

SpecLong == Init /\ [][NextLong]_vars

----------------------------------------------------------------------------
(* get_final_waypoints called on its own.  Its callers are lines 61, 71    *)
(* (self.braking False, any end_wp) and line 76 (self.braking True,        *)
(* end_wp = traffic_wp, which line 53 has already used as an index).       *)

AssemblePaths == { Straight(1, Spacing), Straight(MaxLen, Spacing), Circuit }

InitAssemble ==
    /\ base_waypoints \in { <<p>> : p \in AssemblePaths }
    /\ current_pose = <<>>
    /\ obstacle_waypoint = <<>>
    /\ traffic_waypoint = INIT_TRAFFIC_WAYPOINT
    /\ current_velocity \in VelocityMsgs
    /\ decel = INIT_DECEL
    /\ braking \in BOOLEAN
    /\ alive = TRUE
    /\ out = <<>>
    /\ last = Event("init")
    /\ twin = TwinInit

call_get_final_waypoints(start_wp, end_wp) ==
    /\ braking => PyIndexOK(base_waypoints[1], end_wp)
    /\ out' = << get_final_waypoints(base_waypoints[1], start_wp, end_wp, braking,
                                     current_velocity, NoRace) >>
    /\ last' = Step("get_final_waypoints", "returned", 0, 0, braking, current_velocity,
                    NoRace, start_wp, end_wp)
    /\ UNCHANGED <<base_waypoints, current_pose, obstacle_waypoint, traffic_waypoint,
                   current_velocity, decel, braking, alive>>

NextAssemble ==
    /\ \E start_wp \in 0..MaxStart : \E n \in 0..MaxCount :
           call_get_final_waypoints(start_wp, start_wp + n)
    /\ UNCHANGED twin

SpecAssemble == InitAssemble /\ [][NextAssemble]_vars

----------------------------------------------------------------------------
(* get_closest_waypoint and get_next_waypoint called on their own, with    *)
(* the vehicle anywhere around the path and heading anywhere.              *)

Directions == { <<1, 0>>, <<0, 1>>, <<-1, 0>>, <<0, -1>> }

\* a straight path from the origin, 1 m between waypoints, along direction d
Line(L, d) == <<>> \o [k \in 1..L |-> BaseWp((k - 1) * d[1], (k - 1) * d[2], 0)]

\* a closed path with equally near waypoints for a vehicle inside it
Ring == << BaseWp(0, 0, 0), BaseWp(2, 0, 4), BaseWp(2, 2, 8), BaseWp(0, 2, -4) >>

LocatePaths == { Line(LocateLen, d) : d \in Directions } \cup { Ring }

LocateYaws == { -4, 0, 2, 4, 8 }

LocatePoses ==
    { Pose(x, y, yaw) : x \in (1 - LocateLen)..(LocateLen - 1),
                        y \in (1 - LocateLen)..(LocateLen - 1),
                        yaw \in LocateYaws }

InitLocate ==
    /\ base_waypoints \in { <<p>> : p \in LocatePaths }
    /\ current_pose \in { <<q>> : q \in LocatePoses }
    /\ obstacle_waypoint = <<>>
    /\ traffic_waypoint = INIT_TRAFFIC_WAYPOINT
    /\ current_velocity = INIT_VELOCITY
    /\ decel = INIT_DECEL
    /\ braking = FALSE
    /\ alive = TRUE
    /\ out = <<>>
    /\ last = Event("init")
    /\ twin = TwinInit

call_get_closest_waypoint ==
    /\ out' = << get_closest_waypoint(current_pose[1], base_waypoints[1]) >>
    /\ last' = Event("get_closest_waypoint")
    /\ UNCHANGED <<base_waypoints, current_pose, obstacle_waypoint, traffic_waypoint,
                   current_velocity, decel, braking, alive>>

call_get_next_waypoint ==
    /\ ~get_next_waypoint_raises(current_pose[1], base_waypoints[1])
    /\ out' = << get_next_waypoint(current_pose[1], base_waypoints[1]) >>
    /\ last' = Event("get_next_waypoint")
    /\ UNCHANGED <<base_waypoints, current_pose, obstacle_waypoint, traffic_waypoint,
                   current_velocity, decel, braking, alive>>

NextLocate ==
    \/ call_get_closest_waypoint /\ UNCHANGED twin
    \/ call_get_next_waypoint /\ UNCHANGED twin

SpecLocate == InitLocate /\ [][NextLocate]_vars

----------------------------------------------------------------------------
(* Properties.                                                             *)
(*                                                                         *)
(* A tick changes neither the path, the pose nor the stop index, so in the *)
(* state that follows a tick these variables still hold what the tick      *)
(* read; the velocity it read at line 56 is last.v56.                      *)

Ready == hasattr(base_waypoints) /\ hasattr(current_pose)

Ticked == last.ev = "loop"

Published == last.ev = "loop" /\ last.outcome = "published"

Path == base_waypoints[1]

Window == out[1]

\* squared distance from the vehicle to the stop waypoint
StopDist2 ==
    distance2(current_pose[1].position, PyIndex(Path, traffic_waypoint).position)

\* sqrt(d2) < v^2 / (2 * 4.0) + 5.0, for v in half m/s
BelowThreshold(d2, v) == 1024 * d2 < (v * v + 160) * (v * v + 160)

\* C1: sticky braking.  A tick that starts in BRAKING and sees a present
\* stop signal (index # -1) leaves the state BRAKING, whatever the distance,
\* the velocity and the stop index are; a tick that sees the stop signal
\* absent leaves the state CRUISING; nothing but a tick changes the state.
C1_StickyBraking ==
    [][ /\ (last'.ev = "loop" /\ braking /\ traffic_waypoint # -1) => braking'
        /\ (last'.ev = "loop" /\ last'.outcome = "published" /\ traffic_waypoint = -1)
              => ~braking'
        /\ (last'.ev # "loop") => (braking' = braking) ]_vars

\* a tick stayed BRAKING although the stop waypoint is now nearer than the
\* stopping distance, the condition under which a CRUISING tick does not brake
C1_Witness ==
    /\ Published /\ last.was_braking /\ braking
    /\ traffic_waypoint # -1
    /\ BelowThreshold(StopDist2, last.v56)

\* C2 as the spec states it: a CRUISING tick with a present stop signal ends
\* BRAKING exactly when distance_to_stop < v^2/(2*4.0) + 5.0 and stays
\* CRUISING when distance_to_stop >= that threshold.
C2_CommitWhenNear ==
    (Published /\ traffic_waypoint # -1 /\ ~last.was_braking)
        => (braking <=> BelowThreshold(StopDist2, last.v56))

\* C2 as the code has it: a CRUISING tick with a present stop signal stays
\* CRUISING exactly when distance_to_stop < v^2/(2*4.0) + 5.0 (too short to
\* stop) and ends BRAKING when distance_to_stop >= that threshold.
C2_CommitWhenFar ==
    (Published /\ traffic_waypoint # -1 /\ ~last.was_braking)
        => (braking <=> ~BelowThreshold(StopDist2, last.v56))

\* velocity 5.0 (threshold 8.125): a CRUISING tick commits to BRAKING for a
\* stop waypoint at or beyond the threshold
C2_Witness ==
    /\ Published /\ traffic_waypoint # -1 /\ ~last.was_braking
    /\ last.v56 = 10
    /\ ~BelowThreshold(StopDist2, 10)
    /\ braking

\* C3: every tick that publishes and ends CRUISING publishes one window of
\* exactly 200 waypoints, the k-th copied from path index
\* (next_wp + k - 1) mod L, each with target speed 15.0.
C3_CruiseWindow ==
    (Published /\ ~braking) =>
        /\ Len(out) = 1
        /\ Len(Window) = 200
        /\ \A k \in 1..200 :
             LET src == Path[((last.next_wp + k - 1) % Len(Path)) + 1]
             IN  Window[k] = [position |-> src.position,
                              orientation |-> src.orientation,
                              linear_x |-> 30]

\* stop signal present but not committed, window starting at next_wp = L
C3_Witness ==
    /\ Published /\ ~braking
    /\ traffic_waypoint # -1
    /\ last.next_wp = Len(Path)

C5_WindowBounded ==
    \A m \in 1..Len(out) : Len(out[m]) <= 200

\* C6: a tick that runs with a present stop index that is not a valid path
\* index (>= L or below -1) does not fault: it publishes a window and the
\* node stays able to run later ticks.
C6_BadStopIndexTolerated ==
    (/\ Ticked /\ Ready
     /\ Len(Path) > 0
     /\ traffic_waypoint # -1
     /\ traffic_waypoint \notin 0..(Len(Path) - 1))
        => (last.outcome = "published" /\ alive)

\* C7: in a BRAKING window, a waypoint farther than stop_buffer from the stop
\* waypoint, while current_velocity >= 3.0, has speed
\* current_velocity - 0.5*i when current_velocity - i > 3.0 and 3.0
\* otherwise, i being the 0-based offset of the waypoint from next_wp.
C7_DecayByOffset ==
    (Published /\ braking /\ last.race = NoRace) =>
        \A k \in 1..Len(Window) :
            LET i  == k - 1
                d2 == distance2(Window[k].position,
                                PyIndex(Path, traffic_waypoint).position)
                v  == last.v56
            IN  (d2 > 25 /\ v >= 6) =>
                    Window[k].linear_x = IF v - 2 * i > 6 THEN v - i ELSE 6

\* C8: every waypoint of every published window has target speed >= 0.
C8_SpeedNonNegative ==
    \A m \in 1..Len(out) : \A k \in 1..Len(out[m]) : out[m][k].linear_x >= 0

\* C9: a tick that ends BRAKING with next_wp <= stop_wp publishes exactly the
\* path waypoints next_wp, ..., stop_wp - 1 in ascending order, and neither
\* the stop waypoint nor any waypoint beyond it.
C9_BrakingWindow ==
    (Published /\ braking /\ last.next_wp <= traffic_waypoint) =>
        /\ Len(out) = 1
        /\ Len(Window) = traffic_waypoint - last.next_wp
        /\ \A k \in 1..Len(Window) :
             /\ Window[k].position = Path[last.next_wp + k].position
             /\ Window[k].orientation = Path[last.next_wp + k].orientation
             /\ \A j \in traffic_waypoint..(Len(Path) - 1) :
                  Window[k].position # Path[j + 1].position

\* a braking window of at least two waypoints
C9_Witness ==
    /\ Published /\ braking
    /\ last.next_wp <= traffic_waypoint
    /\ Len(Window) >= 2

\* C10: assembling [s, s+n) over a path of length L > 0 returns exactly n
\* waypoints, the i-th (from 0) with the position and orientation of
\* path[(s+i) mod L], also when s >= L or n > L.
C10_WindowAssembly ==
    (last.ev = "get_final_waypoints") =>
        LET s == last.start_wp
            n == last.end_wp - last.start_wp
        IN  /\ Len(out) = 1
            /\ Len(Window) = n
            /\ \A i \in 0..(n - 1) :
                 /\ Window[i + 1].position = Path[((s + i) % Len(Path)) + 1].position
                 /\ Window[i + 1].orientation = Path[((s + i) % Len(Path)) + 1].orientation

\* a call with s >= L and n > L: path waypoints repeat
C10_Witness ==
    /\ last.ev = "get_final_waypoints"
    /\ last.start_wp >= Len(Path)
    /\ last.end_wp - last.start_wp > Len(Path)

\* the path is straight along direction d with 1 m between its waypoints
StraightAlong(d) ==
    \A k \in 1..(Len(Path) - 1) :
        /\ Path[k + 1].position.x - Path[k].position.x = d[1]
        /\ Path[k + 1].position.y - Path[k].position.y = d[2]

\* C11: on a straight path sampled every 1 m, in any direction, with the
\* vehicle exactly at a sample point and heading along the path, the locator
\* returns the index of that sample point.
C11_SamplePointKept ==
    (last.ev = "get_next_waypoint") =>
        \A d \in Directions : \A j \in 0..(Len(Path) - 1) :
            (/\ StraightAlong(d)
             /\ current_pose[1].position = Path[j + 1].position
             /\ current_pose[1].yaw = atan2(d[2], d[1]))
                => out[1] = j

\* squared distance from the vehicle to the waypoint of path index j
WpDist2(j) == distance2(current_pose[1].position, Path[j + 1].position)

\* j is a nearest waypoint, and the lowest index among the nearest ones
IsNearest(j) ==
    /\ j \in 0..(Len(Path) - 1)
    /\ \A m \in 0..(Len(Path) - 1) : WpDist2(j) <= WpDist2(m)
    /\ \A m \in 0..(j - 1) : WpDist2(m) > WpDist2(j)

\* the nearest waypoint j lies behind the vehicle:
\* |vehicle_yaw - bearing_to_nearest| > pi/4
Behind(j) ==
    LET bearing == atan2(Path[j + 1].position.y - current_pose[1].position.y,
                         Path[j + 1].position.x - current_pose[1].position.x)
        diff    == current_pose[1].yaw - bearing
    IN  diff > 2 \/ diff < -2

\* C12: the index next_wp a tick gets from the locator is nearest + 1
\* exactly when |vehicle_yaw - bearing_to_nearest| > pi/4 and nearest
\* otherwise; it is not wrapped, lies in 0..L and is L when the last waypoint
\* is the nearest and lies behind the vehicle; the window built from it takes
\* its k-th waypoint from path index (next_wp + k - 1) mod L.
C12_HeadingRefinement ==
    Published =>
        \E nearest \in 0..(Len(Path) - 1) :
            /\ IsNearest(nearest)
            /\ last.next_wp = IF Behind(nearest) THEN nearest + 1 ELSE nearest
            /\ last.next_wp \in 0..Len(Path)
            /\ (nearest = Len(Path) - 1 /\ Behind(nearest)) => last.next_wp = Len(Path)
            /\ \A k \in 1..Len(Window) :
                 Window[k].position =
                     Path[((last.next_wp + k - 1) % Len(Path)) + 1].position

\* a tick got next_wp = L and published a window that starts at path index 0
C12_Witness ==
    /\ Published
    /\ last.next_wp = Len(Path)
    /\ Len(Window) > 0
    /\ Window[1].position = Path[1].position

\* C13: two runs that receive the same path, pose, velocity and stop-index
\* updates and the same ticks, but different obstacle-index updates, have
\* identical braking states and publish identical windows at every tick.
C13_ObstacleNonInterference ==
    /\ twin.braking = braking
    /\ twin.out = out

\* a tick published a braking window in both runs, the first having received
\* obstacle index 7 and the second another one
C13_Witness ==
    /\ Published /\ braking
    /\ Len(Window) > 0
    /\ obstacle_waypoint = <<7>>
    /\ twin.obstacle_waypoint # <<>>
    /\ twin.obstacle_waypoint # obstacle_waypoint

\* C14: a tick that runs with a received but empty path (L = 0) and a
\* received pose fails with an error, publishes no window and leaves the
\* braking state unchanged.
C14_EmptyPathTickFails ==
    [][ (last'.ev = "loop" /\ Ready /\ Len(base_waypoints[1]) = 0) =>
          /\ last'.outcome = "raised"
          /\ out' = <<>>
          /\ braking' = braking ]_vars

\* a tick failed on an empty path that arrived while the state was BRAKING
C14_Witness ==
    /\ Ticked /\ last.outcome = "raised"
    /\ Ready /\ Len(Path) = 0
    /\ last.was_braking /\ braking

\* C15: in every BRAKING window a waypoint within stop_buffer (5.0) of the
\* stop waypoint has target speed 0 and a waypoint farther than stop_buffer
\* has target speed 3.0 whenever current_velocity < 3.0; no waypoint of a
\* BRAKING window has a target speed strictly between 0 and 3.0.
C15_StopZoneAndCreep ==
    (Published /\ braking) =>
        \A k \in 1..Len(Window) :
            LET d2 == distance2(Window[k].position,
                                PyIndex(Path, traffic_waypoint).position)
                speed == Window[k].linear_x
            IN  /\ d2 <= 25 => speed = 0
                /\ (d2 > 25 /\ last.v56 < 6) => speed = 6
                /\ ~(speed > 0 /\ speed < 6)

\* the target speed of lines 95-108 for path index i at squared distance d2
\* from the stop waypoint, every read of the velocity returning v
SnapshotSpeed(d2, i, v) ==
    IF d2 > 25 /\ v < 6 THEN 6
    ELSE IF d2 <= 25 THEN 0
    ELSE IF v - 2 * i > 6 THEN v - i
    ELSE 6

\* C16: the velocity is not torn within a tick: whatever velocity updates
\* arrive while the tick runs, the target speeds of its window are all
\* computed from the velocity value its stopping threshold was computed from.
C16_VelocityNotTorn ==
    (Published /\ braking) =>
        \A k \in 1..Len(Window) :
            Window[k].linear_x =
                SnapshotSpeed(distance2(Window[k].position,
                                        PyIndex(Path, traffic_waypoint).position),
                              last.next_wp + k - 1, last.v56)

\* C17: a tick that ends BRAKING with next_wp >= stop index publishes an
\* empty window, and so does every later such tick for as long as the stop
\* signal stays present.
C17_EmptyWindowPastStop ==
    (Published /\ braking /\ last.next_wp >= traffic_waypoint) =>
        out = << <<>> >>

\* a tick that started in BRAKING at or past the stop waypoint
C17_Witness ==
    /\ Published /\ last.was_braking /\ braking
    /\ traffic_waypoint >= 0
    /\ last.next_wp >= traffic_waypoint
    /\ out = << <<>> >>

\* C18: each update (path, pose, velocity, stop index, obstacle index)
\* replaces only its own field and leaves the other fields and the braking
\* state unchanged; a tick leaves the path, the pose, the stop index and the
\* obstacle index unchanged and does not write the velocity, which changes
\* during a tick only to the value a concurrent velocity update stores.
C18_WritersDisjoint ==
    [][ /\ (last'.ev = "base_waypoints_cb") =>
              UNCHANGED <<current_pose, current_velocity, traffic_waypoint,
                          obstacle_waypoint, decel, braking>>
        /\ (last'.ev = "current_pose_cb") =>
              UNCHANGED <<base_waypoints, current_velocity, traffic_waypoint,
                          obstacle_waypoint, decel, braking>>
        /\ (last'.ev = "current_velocity_cb") =>
              UNCHANGED <<base_waypoints, current_pose, traffic_waypoint,
                          obstacle_waypoint, decel, braking>>
        /\ (last'.ev = "traffic_waypoint_cb") =>
              UNCHANGED <<base_waypoints, current_pose, current_velocity,
                          obstacle_waypoint, decel, braking>>
        /\ (last'.ev = "obstacle_waypoint_cb") =>
              UNCHANGED <<base_waypoints, current_pose, current_velocity,
                          traffic_waypoint, decel, braking>>
        /\ (last'.ev = "loop") =>
              /\ UNCHANGED <<base_waypoints, current_pose, traffic_waypoint,
                             obstacle_waypoint, decel>>
              /\ current_velocity' = IF last'.race = NoRace THEN current_velocity
                                     ELSE last'.race.v ]_vars

\* a tick changed the braking state while a velocity update ran
C18_Witness ==
    /\ Published
    /\ braking # last.was_braking
    /\ last.race # NoRace
    /\ current_velocity = last.race.v

\* C19: on a non-empty path the nearest-waypoint scan returns an index in
\* 0..L-1 whose distance to the vehicle is minimal over all waypoints and,
\* among equally near waypoints, the lowest index.
C19_NearestScan ==
    (last.ev = "get_closest_waypoint" /\ Len(Path) > 0) =>
        (Len(out) = 1 /\ IsNearest(out[1]))

\* the scan returned the lower of two or more equally near waypoints
C19_Witness ==
    /\ last.ev = "get_closest_waypoint"
    /\ \E m \in 0..(Len(Path) - 1) : m > out[1] /\ WpDist2(m) = WpDist2(out[1])

====
